---- MODULE Spec2Model ----
(***************************************************************************)
(* A model of ai-os_core.py: a Flask service that stores "memory" entries  *)
(* in one SQLite table behind a global lock, appends JSON lines to a log   *)
(* file, gates every endpoint behind an in-memory API key and runs a       *)
(* background heartbeat loop.                                              *)
(*                                                                         *)
(* Text is modelled as a sequence of one-character strings; a longer       *)
(* string literal of the source that contains none of the characters the   *)
(* program treats specially stands as one element.                         *)
(***************************************************************************)
EXTENDS Integers, Sequences, FiniteSets, TLC

\* ------------------------------------------------------------------------
\* Text helpers (Python str methods and sqlite's LIKE)
\* ------------------------------------------------------------------------

NL == "\n"
QUOTE == "\""
BSLASH == "\\"

\* str.isspace() on one character
IsSpace(c) == c \in {" ", NL}

\* str.upper() on one character (ASCII letters of the model's alphabet)
UpperChar(c) ==
    CASE c = "a" -> "A"
      [] c = "b" -> "B"
      [] c = "c" -> "C"
      [] c = "e" -> "E"
      [] c = "f" -> "F"
      [] c = "i" -> "I"
      [] c = "n" -> "N"
      [] c = "o" -> "O"
      [] c = "r" -> "R"
      [] OTHER -> c

\* level.upper()                                              (line 89)
Upper(s) == [i \in 1..Len(s) |-> UpperChar(s[i])]

RECURSIVE LStrip(_)
LStrip(s) == IF s # <<>> /\ IsSpace(Head(s)) THEN LStrip(Tail(s)) ELSE s

RECURSIVE RStrip(_)
RStrip(s) ==
    IF s # <<>> /\ IsSpace(s[Len(s)]) THEN RStrip(SubSeq(s, 1, Len(s) - 1)) ELSE s

\* Mutant of Strip: the content tested as it came, "if not content"
NoStrip(s) == s

\* content.strip()                                            (line 116)
Strip(s) == RStrip(LStrip(s))

\* sqlite's LIKE operator (patternCompare): "%" matches any run of
\* characters, "_" matches any one character, every other character matches
\* itself, ASCII letters without regard to case.
RECURSIVE Like(_, _)
Like(pat, str) ==
    IF pat = <<>> THEN str = <<>>
    ELSE IF Head(pat) = "%"
         THEN \E k \in 0..Len(str) : Like(Tail(pat), SubSeq(str, k + 1, Len(str)))
    ELSE IF str = <<>> THEN FALSE
    ELSE IF Head(pat) = "_" THEN Like(Tail(pat), Tail(str))
    ELSE UpperChar(Head(pat)) = UpperChar(Head(str)) /\ Like(Tail(pat), Tail(str))

\* Mutant of LikePattern: the pattern anchored at the start, keyword + '%'
LikePatternPrefix(keyword) == keyword \o <<"%">>

\* '%' + keyword + '%'                                        (line 128)
LikePattern(keyword) == <<"%">> \o keyword \o <<"%">>

\* ------------------------------------------------------------------------
\* JSON lines (json.dumps of a flat dict of strings, and its inverse)
\* ------------------------------------------------------------------------

\* json.dumps escapes the quote, the backslash and control characters
RECURSIVE JsonEscape(_)
JsonEscape(s) ==
    IF s = <<>> THEN <<>>
    ELSE (CASE Head(s) = QUOTE  -> <<BSLASH, QUOTE>>
            [] Head(s) = BSLASH -> <<BSLASH, BSLASH>>
            [] Head(s) = NL     -> <<BSLASH, "n">>
            [] OTHER            -> <<Head(s)>>) \o JsonEscape(Tail(s))

JsonString(s) == <<QUOTE>> \o JsonEscape(s) \o <<QUOTE>>

\* json.dumps(log_entry): the keys in insertion order         (lines 87-93)
JsonDumps(e) ==
    <<"{">> \o JsonString(<<"timestamp">>) \o <<":">> \o JsonString(e.timestamp)
    \o <<",">> \o JsonString(<<"level">>) \o <<":">> \o JsonString(e.level)
    \o <<",">> \o JsonString(<<"message">>) \o <<":">> \o JsonString(e.message)
    \o <<"}">>

\* f.readlines(): the file cut after every line terminator; a last piece
\* without a terminator is a line too.                         (line 143)
ReadLines(data) ==
    LET idx == [i \in 1..Len(data) |-> i]
        IsEnd(i) == data[i] = NL
        ends == SelectSeq(idx, IsEnd)
        n == Len(ends)
        rest == Len(data) > (IF n = 0 THEN 0 ELSE ends[n])
        Start(k) == IF k = 1 THEN 1 ELSE ends[k - 1] + 1
    IN  [k \in 1..(n + (IF rest THEN 1 ELSE 0)) |->
            SubSeq(data, Start(k), IF k <= n THEN ends[k] ELSE Len(data))]

\* Mutant of LastLines: the first lines of the file, logs[:100]
FirstLines(lines) == SubSeq(lines, 1, IF Len(lines) > 100 THEN 100 ELSE Len(lines))

\* logs[-100:]                                                 (line 143)
LOG_WINDOW == 100

LastLines(lines) ==
    SubSeq(lines, (IF Len(lines) > LOG_WINDOW THEN Len(lines) - LOG_WINDOW + 1 ELSE 1),
           Len(lines))

\* ------------------------------------------------------------------------
\* Configuration and the inputs of a run
\* ------------------------------------------------------------------------

PERIODIC_TASK_INTERVAL == 300

\* secrets.token_hex(16): the values the key may take          (line 151)
Secrets == {"k1", "k2"}

\* request.headers.get("X-API-KEY") of a request without the header
NoHeader == "<none>"
Headers == Secrets \cup {NoHeader}

\* Request-handling threads, external callers of log_event, the main thread
\* and the heartbeat thread
Workers == {"w1", "w2"}
Callers == {"c1", "c2"}
Threads == Workers \cup Callers \cup {"main", "hb"}

MaxRequests == 3
MaxBeats == 3
MaxFaults == 2
MaxCalls == 3
MaxExtraLines == 2

\* JSON bodies of POST /memory/add: a dict with any of the two keys
Payloads ==
    { <<>>,
      [content |-> <<>>],
      [category |-> <<"c">>, content |-> <<" ">>],
      [content |-> <<"a", "b">>],
      [category |-> <<"c", NL>>, content |-> <<"/", "b">>] }

Keywords == { <<>>, <<"b">>, <<"a", "b">>, <<"/">>, <<"A">>, <<"_">>, <<"c">> }

Request(endpoint, header, payload, keyword) ==
    [endpoint |-> endpoint, header |-> header, payload |-> payload, keyword |-> keyword]

NoRequest == Request("none", NoHeader, <<>>, <<>>)

AddRequests(hs, ps) == {Request("add", h, p, <<>>) : h \in hs, p \in ps}
SearchRequests(hs, ks) == {Request("search", h, <<>>, k) : h \in hs, k \in ks}
LogsRequests(hs) == {Request("logs", h, <<>>, <<>>) : h \in hs}
KeyRequests(hs) == {Request("key", h, <<>>, <<>>) : h \in hs}

\* Every request of the model: any header with any body or keyword
AllRequests ==
    AddRequests(Headers, Payloads) \cup SearchRequests(Headers, Keywords)
    \cup LogsRequests(Headers) \cup KeyRequests(Headers)

\* Arguments external callers pass to log_event(message, level)
Messages == { <<"up">>, <<"a", NL, QUOTE>>, <<BSLASH, "n">> }
Levels == { <<"i", "n", "f", "o">>, <<"E", "r", "r", "o", "r">>, <<"INFO">> }

INFO == <<"INFO">>
SUCCESS == <<"SUCCESS">>
ERROR == <<"ERROR">>

NoResponse == [code |-> 0]

VARIABLES
    API_SECRET,   \* the key generated at start-up
    table,        \* the rows of the memory table, in insertion order
    logExists,    \* os.path.exists(LOG_FILE)
    logData,      \* the characters of the log file
    memory_lock,  \* the threads inside "with memory_lock"
    clock,        \* datetime.datetime.now()
    pc,           \* where each thread is
    req,          \* the request a worker is handling
    resp,         \* the response a worker has produced
    local,        \* a thread's local: the log line being written, or the rows selected
    workload,     \* which requests clients send in this run
    faults,       \* the I/O failures the environment may still inject
    hist          \* history: what has completed so far

vars == <<API_SECRET, table, logExists, logData, memory_lock, clock, pc, req, resp,
          local, workload, faults, hist>>

\* The requests of the runs with failing database and log-file operations
FaultRequests ==
    AddRequests(Secrets, {[content |-> <<"a", "b">>], [content |-> <<>>]})
    \cup SearchRequests(Secrets, {<<"b">>, <<"/">>})
    \cup LogsRequests(Secrets) \cup KeyRequests(Headers)

\* The requests clients send under each workload
Offered ==
    CASE workload = "api"    -> AllRequests
      [] workload = "faulty" -> FaultRequests
      [] workload = "logs"   -> LogsRequests(Headers)
      [] OTHER               -> {}

\* ------------------------------------------------------------------------
\* The event log                                              (lines 85-93)
\* ------------------------------------------------------------------------

\* datetime.datetime.now().isoformat()
IsoFormat(t) == <<ToString(t)>>

\* The dict log_event builds                                  (lines 87-91)
LogEntry(message, level) ==
    [timestamp |-> IsoFormat(clock), level |-> Upper(level), message |-> message]

\* json.dumps(log_entry) + "\n"                                (line 93)
LogLine(message, level) == JsonDumps(LogEntry(message, level)) \o <<NL>>

\* Mutant of AppendToFile: the file opened in mode "w"
OverwriteFile(data, line) == line

\* What f.write(line) followed by the close of a file opened in append mode
\* does to the file: the whole line goes to the end in one write.
AppendToFile(data, line) == data \o line

NoLocal == [line |-> <<>>]

\* log_event up to and including open(LOG_FILE, "a"): the entry is built
\* from the arguments and the clock, and opening creates a missing file.
LogOpen(t, message, level) ==
    /\ local' = [local EXCEPT ![t] =
                    [line |-> LogLine(message, level), message |-> message,
                     level |-> level, timestamp |-> IsoFormat(clock)]]
    /\ logExists' = TRUE
    /\ clock' = clock + 1
    /\ UNCHANGED logData

\* log_event from f.write to the end of the with block: the line reaches the
\* file and the call completes.
LogClose(t) ==
    /\ logData' = AppendToFile(logData, local[t].line)
    /\ local' = [local EXCEPT ![t] = NoLocal]
    /\ UNCHANGED <<logExists, clock>>

\* history: the completed call, in completion order
Completed(t) ==
    Append(hist.calls, [message |-> local[t].message, level |-> local[t].level,
                        timestamp |-> local[t].timestamp])

\* ------------------------------------------------------------------------
\* The memory table                                          (lines 64-76)
\* ------------------------------------------------------------------------

\* Mutant of Insert: INSERT OR REPLACE under the id of the newest row
InsertOrReplace(tbl, timestamp, category, content) ==
    [i \in 1..(IF tbl = <<>> THEN 1 ELSE Len(tbl)) |->
        IF i = (IF tbl = <<>> THEN 1 ELSE Len(tbl))
        THEN [id |-> i, timestamp |-> timestamp, category |-> category, content |-> content]
        ELSE tbl[i]]

\* INSERT INTO memory (timestamp, category, content): AUTOINCREMENT gives
\* the row an id above every id used so far.                (lines 104-106)
Insert(tbl, timestamp, category, content) ==
    Append(tbl, [id |-> Len(tbl) + 1, timestamp |-> timestamp,
                 category |-> category, content |-> content])

Entry(row) ==
    [timestamp |-> row.timestamp, category |-> row.category, content |-> row.content]

\* SELECT timestamp, category, content FROM memory WHERE content LIKE ?,
\* turned into a list of dicts                              (lines 128-129)
Select(tbl, keyword) ==
    LET Matches(row) == Like(LikePattern(keyword), row.content)
        rows == SelectSeq(tbl, Matches)
    IN  [i \in 1..Len(rows) |-> Entry(rows[i])]

\* Mutant of LockFree: an acquire that never waits
AlwaysFree == TRUE

\* memory_lock.acquire() succeeds only on a free lock         (line 44)
LockFree == memory_lock = {}

Acquire(t) == memory_lock' = memory_lock \cup {t}
Release(t) == memory_lock' = memory_lock \ {t}

\* ------------------------------------------------------------------------
\* Requests
\* ------------------------------------------------------------------------

\* The routes: /memory/search/<keyword> takes one non-empty path segment,
\* so a keyword that is empty or holds a "/" matches no route. (line 122)
RouteMatches(r) ==
    r.endpoint = "search" => (r.keyword # <<>> /\ \A i \in 1..Len(r.keyword) : r.keyword[i] # "/")

\* payload.get(key, default)                              (lines 113-114)
Get(payload, key, default) == IF key \in DOMAIN payload THEN payload[key] ELSE default

Category(r) == Get(r.payload, "category", <<"General">>)
Content(r) == Get(r.payload, "content", <<>>)

\* Mutant of Authorized: any header value passes, "if auth_header is None"
AuthorizedIfPresent(r) == r.header # NoHeader

\* auth_header != API_SECRET                                  (line 157)
Authorized(r) == r.header = API_SECRET

\* The server takes requests once app.run is reached, or when the module was
\* imported by a WSGI server (the __main__ block is skipped).  (lines 189-192)
Serving == pc["main"] \in {"serving", "imported"}

\* A request arrives and an idle worker thread takes it.
Receive(t) ==
    /\ Serving
    /\ pc[t] = "idle"
    /\ \A u \in Workers : pc[u] = "idle" => (t = "w1" \/ u # "w1")
    /\ hist.nreq < MaxRequests
    /\ \E r \in Offered :
          /\ req' = [req EXCEPT ![t] = r]
          /\ hist' = [hist EXCEPT !.nreq = @ + 1,
                          !.known[t] = IF r.endpoint = "search" THEN hist.added ELSE {}]
    /\ pc' = [pc EXCEPT ![t] = "before_request"]
    /\ UNCHANGED <<API_SECRET, table, logExists, logData, memory_lock, clock, resp,
                   local, workload, faults>>

Respond(t, r) ==
    /\ resp' = [resp EXCEPT ![t] = r]
    /\ pc' = [pc EXCEPT ![t] = "done"]

\* @app.before_request authenticate                       (lines 153-158)
authenticate(t) ==
    /\ pc[t] = "before_request"
    /\ IF ~Authorized(req[t])
       THEN Respond(t, [code |-> 401, error |-> "Unauthorized"])
       ELSE pc' = [pc EXCEPT ![t] = "route"] /\ UNCHANGED resp
    /\ UNCHANGED <<API_SECRET, table, logExists, logData, memory_lock, clock, req,
                   local, workload, faults, hist>>

\* No route matches the URL: Flask answers 404.
RouteNotFound(t) ==
    /\ pc[t] = "route"
    /\ ~RouteMatches(req[t])
    /\ Respond(t, [code |-> 404, error |-> "Not Found"])
    /\ UNCHANGED <<API_SECRET, table, logExists, logData, memory_lock, clock, req,
                   local, workload, faults, hist>>

\* api_add_memory up to the call of add_memory_entry      (lines 110-119)
api_add_memory(t) ==
    /\ pc[t] = "route"
    /\ req[t].endpoint = "add"
    /\ IF Strip(Content(req[t])) = <<>>
       THEN Respond(t, [code |-> 400, status |-> "Error",
                        message |-> "Content cannot be empty"])
       ELSE pc' = [pc EXCEPT ![t] = "add_lock"] /\ UNCHANGED resp
    /\ UNCHANGED <<API_SECRET, table, logExists, logData, memory_lock, clock, req,
                   local, workload, faults, hist>>

\* add_memory_entry: with memory_lock                         (line 101)
AddAcquire(t) ==
    /\ pc[t] = "add_lock"
    /\ LockFree
    /\ Acquire(t)
    /\ pc' = [pc EXCEPT ![t] = "add_insert"]
    /\ UNCHANGED <<API_SECRET, table, logExists, logData, clock, req, resp,
                   local, workload, faults, hist>>

\* add_memory_entry: the insert and the commit            (lines 102-106)
AddInsert(t) ==
    /\ pc[t] = "add_insert"
    /\ table' = Insert(table, IsoFormat(clock), Category(req[t]), Content(req[t]))
    /\ clock' = clock + 1
    /\ pc' = [pc EXCEPT ![t] = "add_release"]
    /\ hist' = [hist EXCEPT !.rowTs[t] = IsoFormat(clock)]
    /\ UNCHANGED <<API_SECRET, logExists, logData, memory_lock, req, resp, local,
                   workload, faults>>

\* add_memory_entry: the end of the with block                (line 106)
AddRelease(t) ==
    /\ pc[t] = "add_release"
    /\ Release(t)
    /\ pc' = [pc EXCEPT ![t] = "add_log"]
    /\ UNCHANGED <<API_SECRET, table, logExists, logData, clock, req, resp,
                   local, workload, faults, hist>>

AddedMessage(category) == <<"Memory entry added under '">> \o category \o <<"'">>

\* add_memory_entry: log_event(...) opens the log             (line 107)
AddLogOpen(t) ==
    /\ pc[t] = "add_log"
    /\ LogOpen(t, AddedMessage(Category(req[t])), SUCCESS)
    /\ pc' = [pc EXCEPT ![t] = "add_log_write"]
    /\ UNCHANGED <<API_SECRET, table, memory_lock, req, resp, workload, faults, hist>>

\* add_memory_entry: the log line is written; api_add_memory returns
\* Success                                                (lines 107, 120)
AddLogWrite(t) ==
    /\ pc[t] = "add_log_write"
    /\ LogClose(t)
    /\ Respond(t, [code |-> 200, status |-> "Success", message |-> "Memory entry added."])
    /\ hist' = [hist EXCEPT !.calls = Completed(t),
                   !.added = @ \cup {[timestamp |-> hist.rowTs[t],
                                      category |-> Category(req[t]),
                                      content |-> Content(req[t])]}]
    /\ UNCHANGED <<API_SECRET, table, memory_lock, req, workload, faults>>

\* api_memory_search: with memory_lock                        (line 125)
SearchAcquire(t) ==
    /\ pc[t] = "route"
    /\ req[t].endpoint = "search"
    /\ RouteMatches(req[t])
    /\ LockFree
    /\ Acquire(t)
    /\ pc' = [pc EXCEPT ![t] = "search_select"]
    /\ UNCHANGED <<API_SECRET, table, logExists, logData, clock, req, resp,
                   local, workload, faults, hist>>

\* api_memory_search: the query and the result list       (lines 126-129)
SearchSelect(t) ==
    /\ pc[t] = "search_select"
    /\ local' = [local EXCEPT ![t] = [line |-> <<>>, results |-> Select(table, req[t].keyword)]]
    /\ pc' = [pc EXCEPT ![t] = "search_release"]
    /\ UNCHANGED <<API_SECRET, table, logExists, logData, memory_lock, clock, req, resp,
                   workload, faults, hist>>

\* api_memory_search: the end of the with block and the response
\*                                                         (lines 129-130)
SearchRelease(t) ==
    /\ pc[t] = "search_release"
    /\ Release(t)
    /\ Respond(t, [code |-> 200, matches |-> local[t].results,
                   count |-> Len(local[t].results)])
    /\ local' = [local EXCEPT ![t] = NoLocal]
    /\ UNCHANGED <<API_SECRET, table, logExists, logData, clock, req, workload, faults, hist>>

\* retrieve_logs: the check that the file exists          (lines 139-140)
retrieve_logs(t) ==
    /\ pc[t] = "route"
    /\ req[t].endpoint = "logs"
    /\ IF ~logExists
       THEN Respond(t, [code |-> 404, error |-> "Log file not found."])
       ELSE pc' = [pc EXCEPT ![t] = "logs_read"] /\ UNCHANGED resp
    /\ UNCHANGED <<API_SECRET, table, logExists, logData, memory_lock, clock, req,
                   local, workload, faults, hist>>

\* retrieve_logs: the read and the response               (lines 142-145)
RetrieveRead(t) ==
    /\ pc[t] = "logs_read"
    /\ LET logs == LastLines(ReadLines(logData))
       IN  Respond(t, [code |-> 200, logs |-> logs, count |-> Len(logs)])
    /\ hist' = [hist EXCEPT !.readAt[t] = hist.pre + Len(hist.calls)]
    /\ UNCHANGED <<API_SECRET, table, logExists, logData, memory_lock, clock, req,
                   local, workload, faults>>

\* get_api_key                                            (lines 160-163)
get_api_key(t) ==
    /\ pc[t] = "route"
    /\ req[t].endpoint = "key"
    /\ Respond(t, [code |-> 200, api_key |-> API_SECRET])
    /\ UNCHANGED <<API_SECRET, table, logExists, logData, memory_lock, clock, req,
                   local, workload, faults, hist>>

\* The response is sent, close_connection runs and the thread is free again.
\*                                                           (lines 57-62)
close_connection(t) ==
    /\ pc[t] = "done"
    /\ pc' = [pc EXCEPT ![t] = "idle"]
    /\ req' = [req EXCEPT ![t] = NoRequest]
    /\ resp' = [resp EXCEPT ![t] = NoResponse]
    /\ hist' = [hist EXCEPT !.known[t] = {}, !.rowTs[t] = <<>>, !.readAt[t] = 0]
    /\ UNCHANGED <<API_SECRET, table, logExists, logData, memory_lock, clock,
                   local, workload, faults>>

\* ------------------------------------------------------------------------
\* Failures of the environment on the request path: the exception leaves
\* the with block, which releases the lock, and Flask answers 500.
\* ------------------------------------------------------------------------

InternalError == [code |-> 500]

\* cursor.execute or conn.commit raises in add_memory_entry (lines 104-106)
AddInsertFail(t) ==
    /\ pc[t] = "add_insert"
    /\ faults > 0
    /\ faults' = faults - 1
    /\ Release(t)
    /\ Respond(t, InternalError)
    /\ UNCHANGED <<API_SECRET, table, logExists, logData, clock, req, local, workload, hist>>

\* cursor.execute raises in api_memory_search                 (line 128)
SearchSelectFail(t) ==
    /\ pc[t] = "search_select"
    /\ faults > 0
    /\ faults' = faults - 1
    /\ Release(t)
    /\ Respond(t, InternalError)
    /\ UNCHANGED <<API_SECRET, table, logExists, logData, clock, req, local, workload, hist>>

\* open(LOG_FILE, "a") raises in the log_event of add_memory_entry: the row
\* is committed and the request fails.                        (line 107)
AddLogFail(t) ==
    /\ pc[t] = "add_log"
    /\ faults > 0
    /\ faults' = faults - 1
    /\ Respond(t, InternalError)
    /\ UNCHANGED <<API_SECRET, table, logExists, logData, memory_lock, clock, req,
                   local, workload, hist>>

\* ------------------------------------------------------------------------
\* Start-up and the heartbeat                              (lines 169-192)
\* ------------------------------------------------------------------------

StartupMessage == <<"AI-OS Final Evolution starting up...">>
HeartbeatMessage == <<"Self-check: AI-OS running smoothly">>
\* f"Background maintenance error: {str(e)}"
ErrorMessage == <<"Background maintenance error: ", "[Errno 13] Permission denied">>

\* __main__: log_event("AI-OS Final Evolution starting up...") (line 190)
MainLogOpen ==
    /\ pc["main"] = "start"
    /\ LogOpen("main", StartupMessage, INFO)
    /\ pc' = [pc EXCEPT !["main"] = "start_write"]
    /\ UNCHANGED <<API_SECRET, table, memory_lock, req, resp, workload, faults, hist>>

MainLogWrite ==
    /\ pc["main"] = "start_write"
    /\ LogClose("main")
    /\ pc' = [pc EXCEPT !["main"] = "spawn"]
    /\ hist' = [hist EXCEPT !.calls = Completed("main")]
    /\ UNCHANGED <<API_SECRET, table, memory_lock, req, resp, workload, faults>>

\* Mutant of start_background_thread: a loop body that sleeps before it logs
StartSleeping ==
    /\ pc["main"] = "spawn"
    /\ pc' = [pc EXCEPT !["main"] = "serving", !["hb"] = "hb_sleep"]
    /\ hist' = [hist EXCEPT !.hbStart = clock]
    /\ UNCHANGED <<API_SECRET, table, logExists, logData, memory_lock, clock, req, resp,
                   local, workload, faults>>

\* start_background_thread, then app.run                  (lines 180-192)
start_background_thread ==
    /\ pc["main"] = "spawn"
    /\ pc' = [pc EXCEPT !["main"] = "serving", !["hb"] = "hb_log"]
    /\ hist' = [hist EXCEPT !.hbStart = clock]
    /\ UNCHANGED <<API_SECRET, table, logExists, logData, memory_lock, clock, req, resp,
                   local, workload, faults>>

\* background_maintenance: log_event("Self-check...") in the try block
\*                                                             (line 173)
HbLogOpen ==
    /\ pc["hb"] = "hb_log"
    /\ hist.iters < MaxBeats
    /\ LogOpen("hb", HeartbeatMessage, INFO)
    /\ pc' = [pc EXCEPT !["hb"] = "hb_write"]
    /\ hist' = [hist EXCEPT !.iters = @ + 1]
    /\ UNCHANGED <<API_SECRET, table, memory_lock, req, resp, workload, faults>>

HbLogWrite ==
    /\ pc["hb"] = "hb_write"
    /\ LogClose("hb")
    /\ pc' = [pc EXCEPT !["hb"] = "hb_sleep"]
    /\ hist' = [hist EXCEPT !.calls = Completed("hb"),
                   !.beats = @ + 1,
                   !.prevAt = IF hist.beats = 0 THEN hist.hbStart ELSE hist.beatAt,
                   !.beatAt = clock,
                   !.gap = [sleeps |-> hist.sleeps, fails |-> hist.fails],
                   !.sleeps = 0, !.fails = 0]
    /\ UNCHANGED <<API_SECRET, table, memory_lock, req, resp, workload, faults>>

\* background_maintenance: time.sleep(PERIODIC_TASK_INTERVAL), in the try
\* block and in the handler                              (lines 174, 177)
HbSleep ==
    /\ pc["hb"] \in {"hb_sleep", "hb_err_sleep"}
    /\ clock' = clock + PERIODIC_TASK_INTERVAL
    /\ pc' = [pc EXCEPT !["hb"] = "hb_log"]
    /\ hist' = [hist EXCEPT !.sleeps = @ + 1]
    /\ UNCHANGED <<API_SECRET, table, logExists, logData, memory_lock, req, resp,
                   local, workload, faults>>

\* The heartbeat's log_event raises (the log cannot be opened): control
\* passes to the except clause.                          (lines 173-175)
HbLogFail ==
    /\ pc["hb"] = "hb_log"
    /\ hist.iters < MaxBeats
    /\ faults > 0
    /\ faults' = faults - 1
    /\ pc' = [pc EXCEPT !["hb"] = "hb_err"]
    /\ hist' = [hist EXCEPT !.iters = @ + 1, !.fails = @ + 1]
    /\ UNCHANGED <<API_SECRET, table, logExists, logData, memory_lock, clock, req, resp,
                   local, workload>>

\* The except clause: log_event(f"Background maintenance error: ...")
\*                                                             (line 176)
HbErrLogOpen ==
    /\ pc["hb"] = "hb_err"
    /\ LogOpen("hb", ErrorMessage, ERROR)
    /\ pc' = [pc EXCEPT !["hb"] = "hb_err_write"]
    /\ UNCHANGED <<API_SECRET, table, memory_lock, req, resp, workload, faults, hist>>

HbErrLogWrite ==
    /\ pc["hb"] = "hb_err_write"
    /\ LogClose("hb")
    /\ pc' = [pc EXCEPT !["hb"] = "hb_err_sleep"]
    /\ hist' = [hist EXCEPT !.calls = Completed("hb")]
    /\ UNCHANGED <<API_SECRET, table, memory_lock, req, resp, workload, faults>>

\* The log_event of the except clause raises too: nothing catches it, the
\* exception leaves the while loop and the thread ends.        (line 176)
HbErrLogFail ==
    /\ pc["hb"] = "hb_err"
    /\ faults > 0
    /\ faults' = faults - 1
    /\ pc' = [pc EXCEPT !["hb"] = "dead"]
    /\ UNCHANGED <<API_SECRET, table, logExists, logData, memory_lock, clock, req, resp,
                   local, workload, hist>>

\* ------------------------------------------------------------------------
\* Any other caller of log_event(message, level)
\* ------------------------------------------------------------------------

CallLogOpen(t) ==
    /\ pc[t] = "idle"
    /\ hist.ncalls < MaxCalls
    /\ \E m \in Messages, l \in Levels : LogOpen(t, m, l)
    /\ pc' = [pc EXCEPT ![t] = "call_write"]
    /\ hist' = [hist EXCEPT !.ncalls = @ + 1]
    /\ UNCHANGED <<API_SECRET, table, memory_lock, req, resp, workload, faults>>

CallLogWrite(t) ==
    /\ pc[t] = "call_write"
    /\ LogClose(t)
    /\ pc' = [pc EXCEPT ![t] = "idle"]
    /\ hist' = [hist EXCEPT !.calls = Completed(t)]
    /\ UNCHANGED <<API_SECRET, table, memory_lock, req, resp, workload, faults>>

\* ------------------------------------------------------------------------
\* Initial states and specifications
\* ------------------------------------------------------------------------

\* A log file left by an earlier run: n heartbeat lines (none when n = 0);
\* n = -1 stands for no file.
OldLine(i) ==
    JsonDumps([timestamp |-> IsoFormat(i), level |-> INFO,
               message |-> HeartbeatMessage]) \o <<NL>>

OldLog(n) ==
    LET len == Len(OldLine(0))
    IN  [i \in 1..(IF n > 0 THEN n * len ELSE 0) |->
            OldLine((i - 1) \div len)[((i - 1) % len) + 1]]

Max(a, b) == IF a > b THEN a ELSE b

InitHist(pre) ==
    [nreq |-> 0, added |-> {}, known |-> [t \in Workers |-> {}],
     rowTs |-> [t \in Workers |-> <<>>], readAt |-> [t \in Workers |-> 0],
     calls |-> <<>>, pre |-> Max(pre, 0), ncalls |-> 0,
     iters |-> 0, beats |-> 0, sleeps |-> 0, fails |-> 0, beatAt |-> 0, prevAt |-> 0,
     gap |-> [sleeps |-> 0, fails |-> 0], hbStart |-> 0]

\* The state after the module is loaded: the schema exists and is empty,
\* the key is drawn, nobody holds the lock.           (lines 36-44, 79, 151)
InitState(mainpc, pre, load, nfaults, keys) ==
    /\ API_SECRET \in keys
    /\ table = <<>>
    /\ logExists = (pre >= 0)
    /\ logData = OldLog(pre)
    /\ memory_lock = {}
    /\ clock = Max(pre, 0)
    /\ pc = [t \in Threads |-> IF t = "main" THEN mainpc
                               ELSE IF t = "hb" THEN "off" ELSE "idle"]
    /\ req = [t \in Workers |-> NoRequest]
    /\ resp = [t \in Workers |-> NoResponse]
    /\ local = [t \in Threads |-> NoLocal]
    /\ workload = load
    /\ faults = nfaults
    /\ hist = InitHist(pre)

WorkerNext(t) ==
    \/ Receive(t)
    \/ authenticate(t)
    \/ RouteNotFound(t)
    \/ api_add_memory(t)
    \/ AddAcquire(t)
    \/ AddInsert(t)
    \/ AddRelease(t)
    \/ AddLogOpen(t)
    \/ AddLogWrite(t)
    \/ SearchAcquire(t)
    \/ SearchSelect(t)
    \/ SearchRelease(t)
    \/ retrieve_logs(t)
    \/ RetrieveRead(t)
    \/ get_api_key(t)
    \/ close_connection(t)

WorkerFault(t) ==
    \/ AddInsertFail(t)
    \/ SearchSelectFail(t)
    \/ AddLogFail(t)

\* The service as a WSGI application on a fresh data directory
Init == InitState("imported", -1, "api", 0, Secrets)
Next == \E t \in Workers : WorkerNext(t)
Spec == Init /\ [][Next]_vars

\* The same with failing database and log-file operations
InitFault == InitState("imported", -1, "faulty", MaxFaults, Secrets)
NextFault == \E t \in Workers : WorkerNext(t) \/ WorkerFault(t)
SpecFault == InitFault /\ [][NextFault]_vars

\* The script run: start-up, the heartbeat with a log file that may fail,
\* and clients that retrieve the log
Preloads == {-1, 0, LOG_WINDOW - 1, LOG_WINDOW, LOG_WINDOW + MaxExtraLines}

InitLogs ==
    \E mainpc \in {"start", "imported"}, pre \in Preloads :
        InitState(mainpc, pre, "logs", MaxFaults, {"k1"})

NextLogs ==
    \/ MainLogOpen
    \/ MainLogWrite
    \/ start_background_thread
    \/ HbLogOpen
    \/ HbLogWrite
    \/ HbSleep
    \/ HbLogFail
    \/ HbErrLogOpen
    \/ HbErrLogWrite
    \/ HbErrLogFail
    \/ \E t \in Workers :
          \/ Receive(t)
          \/ authenticate(t)
          \/ retrieve_logs(t)
          \/ RetrieveRead(t)
          \/ close_connection(t)

SpecLogs == InitLogs /\ [][NextLogs]_vars

\* log_event under concurrent callers with arbitrary arguments
InitLogEvent == \E pre \in {-1, 1} : InitState("imported", pre, "none", 0, {"k1"})
NextLogEvent == \E t \in Callers : CallLogOpen(t) \/ CallLogWrite(t)
SpecLogEvent == InitLogEvent /\ [][NextLogEvent]_vars

\* ------------------------------------------------------------------------
\* Properties
\* ------------------------------------------------------------------------

\* The request a step of worker t belongs to, and whether t took a step
Handling(t) == IF pc[t] = "idle" THEN req'[t] ELSE req[t]
Stepped(t) == pc'[t] # pc[t]

Unauthorized401 == [code |-> 401, error |-> "Unauthorized"]

\* C1: a request whose X-API-KEY header is absent or differs from the secret
\* is answered 401 whatever its endpoint, is never dispatched to a handler,
\* and none of its steps changes the memory table, the log file or the lock;
\* a response that carries the key went to a caller that presented it.
C1_UnauthorizedRejected ==
    /\ [](\A t \in Workers :
            /\ (req[t].endpoint # "none" /\ req[t].header # API_SECRET)
                  => /\ pc[t] \in {"before_request", "done"}
                     /\ pc[t] = "done" => resp[t] = Unauthorized401
            /\ "api_key" \in DOMAIN resp[t] => req[t].header = API_SECRET)
    /\ [][\A t \in Workers :
            (Stepped(t) /\ Handling(t).header # API_SECRET)
               => UNCHANGED <<table, logExists, logData, memory_lock>>]_vars

\* C1 witness: with rows in the table, a get_api_key request with a wrong
\* key has been answered 401
C1_Witness ==
    \E t \in Workers :
        /\ pc[t] = "done" /\ req[t].endpoint = "key"
        /\ req[t].header \notin {API_SECRET, NoHeader}
        /\ resp[t].code = 401 /\ table # <<>>

AllSpace(s) == \A i \in 1..Len(s) : s[i] \in {" ", NL}

EmptyContent400 == [code |-> 400, status |-> "Error", message |-> "Content cannot be empty"]

\* C3: an authenticated add whose content is missing, empty or made of
\* whitespace only is answered 400 with status Error and the message
\* "Content cannot be empty", never reaches add_memory_entry, and none of its
\* steps changes the memory table.
C3_EmptyContentRejected ==
    /\ [](\A t \in Workers :
            (/\ req[t].endpoint = "add" /\ req[t].header = API_SECRET
             /\ ("content" \in DOMAIN req[t].payload => AllSpace(req[t].payload["content"])))
               => /\ pc[t] \in {"before_request", "route", "done"}
                  /\ pc[t] = "done" => resp[t] = EmptyContent400)
    /\ [][\A t \in Workers :
            (/\ Stepped(t) /\ Handling(t).endpoint = "add"
             /\ ("content" \in DOMAIN Handling(t).payload
                    => AllSpace(Handling(t).payload["content"])))
               => table' = table]_vars

\* C3 witness: an add with whitespace-only content has been answered 400
\* while the table holds a row
C3_Witness ==
    \E t \in Workers :
        /\ pc[t] = "done" /\ req[t].endpoint = "add" /\ req[t].header = API_SECRET
        /\ "content" \in DOMAIN req[t].payload /\ req[t].payload["content"] = <<" ">>
        /\ resp[t].code = 400 /\ Len(table) = 1

\* An authenticated search that has been answered
SearchDone(t) ==
    pc[t] = "done" /\ req[t].endpoint = "search" /\ req[t].header = API_SECRET

\* The answer of t is a 200 whose match list holds entry e
Found(t, e) ==
    /\ resp[t].code = 200
    /\ \E i \in 1..Len(resp[t].matches) : resp[t].matches[i] = e

Occurs(k, text) == \E i \in 0..(Len(text) - Len(k)) : SubSeq(text, i + 1, i + Len(k)) = k

NoSlash(k) == \A i \in 1..Len(k) : k[i] # "/"

\* C2 (as stated): once an add has returned Success, every later
\* authenticated search whose keyword is any substring of its content answers
\* with a match list that holds the entry (timestamp, category, content).
C2_Original ==
    \A t \in Workers : SearchDone(t) =>
        \A e \in hist.known[t] : Occurs(req[t].keyword, e.content) => Found(t, e)

\* C2 (amended): the same for every keyword that is a non-empty substring of
\* the content and holds no "/", the keywords the search route accepts.
C2_AddThenSearch ==
    \A t \in Workers : SearchDone(t) =>
        \A e \in hist.known[t] :
            (/\ req[t].keyword # <<>> /\ NoSlash(req[t].keyword)
             /\ Occurs(req[t].keyword, e.content)) => Found(t, e)

\* C2 witness: a search for "b" has found the entry of an earlier add of
\* "ab", with another add in between
C2_Witness ==
    \E t \in Workers :
        /\ SearchDone(t) /\ req[t].keyword = <<"b">> /\ Len(table) >= 2
        /\ \E e \in hist.known[t] : e.content = <<"a", "b">> /\ Found(t, e)

\* C4 (as stated, the part about the list): an authenticated search for a
\* keyword that is a substring of the content of no stored entry never
\* answers with a non-empty match list.
C4_Original ==
    \A t \in Workers :
        (/\ SearchDone(t)
         /\ \A i \in 1..Len(table) : ~Occurs(req[t].keyword, table[i].content)
         /\ resp[t].code = 200)
            => resp[t].matches = <<>> /\ resp[t].count = 0

\* Both workers have answered an authenticated add
BothAdded ==
    \A t \in Workers :
        pc[t] = "done" /\ req[t].endpoint = "add" /\ req[t].header = API_SECRET

Success == [code |-> 200, status |-> "Success", message |-> "Memory entry added."]

RowsOf(t) ==
    {i \in 1..Len(table) :
        /\ table[i].timestamp = hist.rowTs[t]
        /\ table[i].category = (IF "category" \in DOMAIN req[t].payload
                                THEN req[t].payload["category"] ELSE <<"General">>)
        /\ table[i].content = req[t].payload["content"]}

HasContent(t) == "content" \in DOMAIN req[t].payload /\ req[t].payload["content"] # <<>>

\* C5 (as stated): two concurrent authenticated adds with distinct non-empty
\* content both return Success and leave one row each.
C5_Original ==
    (/\ BothAdded
     /\ \A t \in Workers : HasContent(t)
     /\ req["w1"].payload["content"] # req["w2"].payload["content"])
        => \A t \in Workers : resp[t] = Success /\ Cardinality(RowsOf(t)) = 1

Inserted == {t \in Workers : pc[t] \in {"add_release", "add_log", "add_log_write"}}

\* C5 (amended): two concurrent authenticated adds with distinct content that
\* is not empty and not made of whitespace only both return Success; the
\* table holds exactly one row per add that has inserted, each with its own
\* id, so it ends with exactly two new rows; and a later search for either
\* content, when the content is a keyword the search route accepts (no "/"),
\* returns that entry.
C5_ConcurrentAdds ==
    /\ (/\ BothAdded
        /\ \A t \in Workers : HasContent(t) /\ ~AllSpace(req[t].payload["content"])
        /\ req["w1"].payload["content"] # req["w2"].payload["content"])
          => /\ \A t \in Workers : resp[t] = Success /\ Cardinality(RowsOf(t)) = 1
             /\ RowsOf("w1") # RowsOf("w2")
    /\ Len(table) = Cardinality(hist.added) + Cardinality(Inserted)
    /\ \A i, j \in 1..Len(table) : table[i].id = table[j].id => i = j
    /\ \A t \in Workers : SearchDone(t) =>
          \A e \in hist.known[t] :
              (req[t].keyword = e.content /\ NoSlash(e.content)) => Found(t, e)

\* C5 witness: two adds with distinct content overlapped (the first to
\* insert was the second to log), both returned Success and the table holds
\* their two rows
C5_Witness ==
    /\ BothAdded
    /\ \A t \in Workers : resp[t] = Success
    /\ Len(table) = 2
    /\ table[1].content # table[2].content
    /\ Len(hist.calls) = 2
    /\ hist.calls[1].message = <<"Memory entry added under '">> \o table[2].category \o <<"'">>
    /\ hist.calls[2].message = <<"Memory entry added under '">> \o table[1].category \o <<"'">>
    /\ table[1].category # table[2].category

\* What a reader of the log does with one line: json.loads of an object of
\* the three string fields. ParseString reads the JSON string that starts at
\* position i and answers where it ends.
RECURSIVE ParseChars(_, _, _)
ParseChars(s, i, acc) ==
    IF i > Len(s) THEN [ok |-> FALSE, val |-> acc, next |-> i]
    ELSE IF s[i] = QUOTE THEN [ok |-> TRUE, val |-> acc, next |-> i + 1]
    ELSE IF s[i] = NL THEN [ok |-> FALSE, val |-> acc, next |-> i]
    ELSE IF s[i] = BSLASH
         THEN IF i + 1 > Len(s) THEN [ok |-> FALSE, val |-> acc, next |-> i]
              ELSE IF s[i + 1] = "n" THEN ParseChars(s, i + 2, Append(acc, NL))
              ELSE IF s[i + 1] \in {QUOTE, BSLASH}
                   THEN ParseChars(s, i + 2, Append(acc, s[i + 1]))
              ELSE [ok |-> FALSE, val |-> acc, next |-> i]
    ELSE ParseChars(s, i + 1, Append(acc, s[i]))

ParseString(s, i) ==
    IF i <= Len(s) /\ s[i] = QUOTE THEN ParseChars(s, i + 1, <<>>)
    ELSE [ok |-> FALSE, val |-> <<>>, next |-> i]

Expect(s, i, c) == i <= Len(s) /\ s[i] = c

NoEntry == [ok |-> FALSE, timestamp |-> <<>>, level |-> <<>>, message |-> <<>>]

\* json.loads of one log line (without its line terminator)
JsonLoads(s) ==
    LET k1 == ParseString(s, 2)
        v1 == ParseString(s, k1.next + 1)
        k2 == ParseString(s, v1.next + 1)
        v2 == ParseString(s, k2.next + 1)
        k3 == ParseString(s, v2.next + 1)
        v3 == ParseString(s, k3.next + 1)
    IN  IF /\ Expect(s, 1, "{")
           /\ k1.ok /\ k1.val = <<"timestamp">> /\ Expect(s, k1.next, ":") /\ v1.ok
           /\ Expect(s, v1.next, ",")
           /\ k2.ok /\ k2.val = <<"level">> /\ Expect(s, k2.next, ":") /\ v2.ok
           /\ Expect(s, v2.next, ",")
           /\ k3.ok /\ k3.val = <<"message">> /\ Expect(s, k3.next, ":") /\ v3.ok
           /\ Expect(s, v3.next, "}") /\ v3.next = Len(s)
        THEN [ok |-> TRUE, timestamp |-> v1.val, level |-> v2.val, message |-> v3.val]
        ELSE NoEntry

\* The upper-case form of each level the callers pass
UpperCased(l) ==
    CASE l = <<"i", "n", "f", "o">>      -> <<"I", "N", "F", "O">>
      [] l = <<"E", "r", "r", "o", "r">> -> <<"E", "R", "R", "O", "R">>
      [] OTHER                           -> l

\* The line is one JSON object, closed by the only line terminator it holds,
\* whose fields are those of the call
LineOfCall(ln, call) ==
    LET body == SubSeq(ln, 1, Len(ln) - 1)
        e == JsonLoads(body)
    IN  /\ ln # <<>> /\ ln[Len(ln)] = NL
        /\ \A k \in 1..Len(body) : body[k] # NL
        /\ e.ok
        /\ e.timestamp = call.timestamp
        /\ e.level = UpperCased(call.level)
        /\ e.message = call.message

\* C6: under any interleaving of concurrent callers, every completed call of
\* log_event(message, level) has added exactly one line at the end of the
\* log file and left the earlier lines as they were; the file holds one line
\* per completed call, in completion order after the lines it started with,
\* each a JSON object with the call's timestamp, its level in upper case and
\* its message.
C6_OneLinePerCall ==
    /\ [](LET lines == ReadLines(logData)
          IN  /\ Len(lines) = hist.pre + Len(hist.calls)
              /\ \A i \in 1..hist.pre : lines[i] = OldLine(i - 1)
              /\ \A i \in 1..Len(hist.calls) : LineOfCall(lines[hist.pre + i], hist.calls[i]))
    /\ [][Len(hist'.calls) = Len(hist.calls) + 1
            => /\ Len(logData') > Len(logData)
               /\ SubSeq(logData', 1, Len(logData)) = logData
               /\ Len(ReadLines(logData')) = Len(ReadLines(logData)) + 1]_vars
    /\ [][logData' # logData => Len(hist'.calls) = Len(hist.calls) + 1]_vars

\* C6 witness: two overlapping calls have completed in the order opposite to
\* their timestamps, one with a lower-case level and one with a message that
\* holds a line break and a quote
C6_Witness ==
    /\ Len(hist.calls) = 2
    /\ hist.calls[1].timestamp = IsoFormat(hist.pre + 1)
    /\ hist.calls[2].timestamp = IsoFormat(hist.pre)
    /\ hist.calls[1].level = <<"i", "n", "f", "o">>
    /\ hist.calls[2].message = <<"a", NL, QUOTE>>
    /\ hist.pre = 1

\* An authenticated retrieve_logs that has been answered
LogsDone(t) == pc[t] = "done" /\ req[t].endpoint = "logs" /\ req[t].header = API_SECRET

Min(a, b) == IF a < b THEN a ELSE b

\* C7: an authenticated retrieve_logs answers 404 only when the log file
\* does not exist, and otherwise 200 with the last min(n, 100) of the n lines
\* written by then, oldest first, and count the number of lines returned.
C7_LastHundredLines ==
    /\ [](\A t \in Workers : LogsDone(t) =>
            /\ resp[t].code \in {200, 404}
            /\ resp[t].code = 200 =>
                  LET n == hist.readAt[t]
                      m == Min(n, 100)
                      lines == ReadLines(logData)
                  IN  /\ Len(lines) >= n
                      /\ resp[t].logs = [i \in 1..m |-> lines[n - m + i]]
                      /\ resp[t].count = m
                      /\ resp[t].count <= 100)
    /\ [][\A t \in Workers :
            (Stepped(t) /\ pc[t] = "route" /\ req[t].endpoint = "logs")
               => (resp'[t].code = 404 <=> ~logExists)]_vars

\* C7 witness: a retrieve_logs issued after more than 100 lines were written
\* has been answered with 100 lines
C7_Witness ==
    \E t \in Workers :
        LogsDone(t) /\ resp[t].code = 200 /\ hist.readAt[t] > 100 /\ resp[t].count = 100
        /\ Len(hist.calls) > 0

\* C8 (as stated): no failure makes the heartbeat thread exit.
C8_Original == pc["hb"] # "dead"

\* C9 (as stated): no heartbeat line is written until a full interval has
\* elapsed (one sleep has been taken) since the thread started or since the
\* previous heartbeat line.
C9_Original ==
    hist.beats >= 1 =>
        /\ hist.gap.sleeps >= 1
        /\ hist.beatAt - hist.prevAt >= PERIODIC_TASK_INTERVAL

\* C9 (amended): in every iteration the heartbeat line comes before the
\* sleep. The first heartbeat line is written as soon as the thread starts,
\* with no sleep before it, and consecutive heartbeat lines are separated by
\* exactly one sleep, plus one more sleep for every heartbeat write that
\* failed in between (the failure handler sleeps the same interval).
C9_LogThenSleep ==
    /\ hist.beats = 1 => hist.gap.sleeps = hist.gap.fails
    /\ hist.beats >= 2 => hist.gap.sleeps = 1 + hist.gap.fails
    /\ hist.beats >= 2 =>
          hist.beatAt - hist.prevAt >= PERIODIC_TASK_INTERVAL * hist.gap.sleeps
    /\ pc["hb"] = "hb_sleep" => hist.beats >= 1 /\ hist.sleeps = 0 /\ hist.fails = 0
    /\ pc["hb"] = "hb_write" => hist.sleeps = hist.fails + (IF hist.beats = 0 THEN 0 ELSE 1)

\* C9 witness: the second heartbeat line has been written one sleep after
\* the first, which was written before any sleep
C9_Witness ==
    /\ hist.beats = 2 /\ hist.gap = [sleeps |-> 1, fails |-> 0]
    /\ hist.iters = 2 /\ faults = MaxFaults

\* C10: at most one thread holds the memory lock; a thread is inside the
\* with block of add or search exactly when it holds the lock, so the lock is
\* free of a thread on every exit path (a failed insert or select included),
\* nobody waits for it while holding it, and the success line of an add is
\* logged without it; every change of the table and every select is a step of
\* the one thread that holds the lock.
C10_LockDiscipline ==
    /\ [](/\ Cardinality(memory_lock) <= 1
          /\ \A t \in Workers :
                t \in memory_lock <=>
                    pc[t] \in {"add_insert", "add_release", "search_select", "search_release"})
    /\ [][\A t \in Workers :
            (Stepped(t) /\ (table' # table \/ pc[t] = "search_select"))
               => memory_lock = {t}]_vars
    /\ [][(table' # table \/ logData' # logData) => \E t \in Workers : Stepped(t)]_vars
    /\ [][\A t \in Workers :
            (Stepped(t) /\ (logData' # logData \/ logExists' # logExists))
               => t \notin memory_lock]_vars

\* C10 witness: after a failed database operation, one worker is inside the
\* with block of add while the other waits for the lock
C10_Witness ==
    /\ faults < MaxFaults
    /\ \E t, u \in Workers :
          pc[t] = "add_insert" /\ memory_lock = {t} /\ pc[u] = "add_lock"
====
